---- MODULE Spec2Model ----
(***************************************************************************)
(* The push processor of uniqush-push (src/pushprocessor.go): Process      *)
(* dispatches a request on the direct, per-subscriber or batched path,     *)
(* push resolves a subscriber and attempts each distinct delivery point,   *)
(* pushToDeliveryPoint classifies the backend's answer, retryRequest       *)
(* re-queues a retry after a backoff.                                      *)
(*                                                                         *)
(* A request is a value (its fields, PreviousTry included), goroutines     *)
(* are records with a pc, the backend channel is a bounded FIFO.           *)
(***************************************************************************)
EXTENDS Integers, Sequences, FiniteSets, TLC

\* ---------------------------------------------------------------- bounds
\* Largest subscriber list in the general scenarios.
MaxSubs == 2
\* Largest subscriber list in the batching scenarios.
MaxBulkSubs == 5
\* Largest worker cap (PushProcessor.max_nr_gorountines) tried.
MaxCap == 2
\* Largest retry limit (PushProcessor.max_nr_retry) in the general scenarios.
MaxRetryCfg == 1
\* Capacity of the backend channel.
ChanCap == 1
\* Most pairs the storage holds for the subscribers of one request in the
\* general scenarios.
MaxStored == 1
\* Longest pair list in the deduplication scenarios.
MaxDedupPairs == 4
\* Most subscribers that share one notification in the sharing scenarios.
MaxSharers == 2

\* ------------------------------------------------------------- constants
init_backoff_time == 3
DefaultMaxRetry == 3

NoPsp == "nil"
NoDp == "nil"
RetryAfterVals == {0, 10}

\* Go's s[lo:hi] on a 1-based sequence.
Slice(s, lo, hi) == SubSeq(s, lo + 1, hi)

RECURSIVE SeqsUpTo(_, _)
SeqsUpTo(S, n) ==
    IF n = 0 THEN {<<>>}
    ELSE LET shorter == SeqsUpTo(S, n - 1)
         IN shorter \cup {Append(s, x) : s \in {t \in shorter : Len(t) = n - 1}, x \in S}

\* ------------------------------------------------- the backend's answers
NoError == [kind |-> "nil", ra |-> 0]
RetryErrors == {[kind |-> "retry", ra |-> x] : x \in RetryAfterVals}
UnregisteredError == [kind |-> "unreg", ra |-> 0]
OtherError == [kind |-> "other", ra |-> 0]
PlainErrors == RetryErrors \cup {UnregisteredError, OtherError}
\* RefreshDataError: optional provider, optional delivery point, OtherError.
RefreshErrors ==
    {[kind |-> "refresh", ra |-> 0, psp |-> a, dp |-> b, other |-> e] :
        a \in BOOLEAN, b \in BOOLEAN, e \in PlainErrors \cup {NoError}}
PushResults ==
    {[kind |-> e.kind, ra |-> e.ra, psp |-> FALSE, dp |-> FALSE, other |-> NoError] :
        e \in PlainErrors \cup {NoError}}
    \cup RefreshErrors

VARIABLES
    max_nr_gorountines, \* PushProcessor.max_nr_gorountines
    max_nr_retry,       \* PushProcessor.max_nr_retry
    root,               \* the request the front end handed to Process
    db,                 \* storage: subscriber -> its (provider, delivery point) pairs
    proc,               \* Process calls: request -> [pc, pos, wg]
    sink,               \* response sinks: request -> [responded, finished, late]
    trace,              \* request -> subscriber -> the calls made for it, in order
    workers,            \* goroutines spawned by Process, in spawn order
    tasks,              \* retryRequest goroutines
    backendch,          \* PushProcessor.backendch
    recycled            \* number of Notification.Recycle calls

vars == <<max_nr_gorountines, max_nr_retry, root, db, proc, sink, trace,
          workers, tasks, backendch, recycled>>

\* ---------------------------------------------------------------- requests
\* A Request value. PreviousTry is <<>> (nil) or <<the request retried>>.
Request(subs, psp, dp) ==
    [ID |-> "id", Action |-> "PUSH", RequestSenderAddr |-> "addr", Service |-> "svc",
     Subscribers |-> subs, PushServiceProvider |-> psp, DeliveryPoint |-> dp,
     Notification |-> "n", nrRetries |-> 0, backoffTime |-> 0, PreviousTry |-> <<>>]

\* ShouldRetry with the limit test off by one.
ShouldRetry_OffByOne(req) == ~(req.nrRetries > max_nr_retry)

\* retryRequest's guard: a retry is built only below the limit.
ShouldRetry(req) == ~(req.nrRetries >= max_nr_retry)

\* NextBackoff adding the initial backoff instead of doubling.
NextBackoff_Linear(req) ==
    IF req.nrRetries = 0 \/ req.backoffTime = 0
    THEN init_backoff_time
    ELSE req.backoffTime + init_backoff_time

\* The backoff stored in the retry of req.
NextBackoff(req) ==
    IF req.nrRetries = 0 \/ req.backoffTime = 0
    THEN init_backoff_time
    ELSE req.backoffTime * 2

\* WaitTime doubling from the retry-after hint's side: the hint is ignored.
WaitTime_IgnoresHint(backoff, retryAfter) == backoff

\* The seconds retryRequest sleeps before it sends.
WaitTime(backoff, retryAfter) ==
    IF retryAfter > 0 THEN retryAfter ELSE backoff

\* NewRetryRequest that copies the subscriber list of the request retried.
NewRetryRequest_KeepsSubscribers(req, subscriber, psp, dp) ==
    [ID |-> req.ID, Action |-> "PUSH", RequestSenderAddr |-> req.RequestSenderAddr,
     Service |-> req.Service, Subscribers |-> req.Subscribers,
     PushServiceProvider |-> psp, DeliveryPoint |-> dp,
     Notification |-> req.Notification, nrRetries |-> req.nrRetries + 1,
     backoffTime |-> NextBackoff(req), PreviousTry |-> <<req>>]

\* The request retryRequest builds.
NewRetryRequest(req, subscriber, psp, dp) ==
    [ID |-> req.ID, Action |-> "PUSH", RequestSenderAddr |-> req.RequestSenderAddr,
     Service |-> req.Service, Subscribers |-> <<subscriber>>,
     PushServiceProvider |-> psp, DeliveryPoint |-> dp,
     Notification |-> req.Notification, nrRetries |-> req.nrRetries + 1,
     backoffTime |-> NextBackoff(req), PreviousTry |-> <<req>>]

\* NewUnsubscribeRequest that passes on the request's whole subscriber list.
NewUnsubscribeRequest_AllSubscribers(req, subscriber, dp) ==
    [ID |-> req.ID, Action |-> "UNSUBSCRIBE", RequestSenderAddr |-> req.RequestSenderAddr,
     Service |-> req.Service, Subscribers |-> req.Subscribers,
     PushServiceProvider |-> NoPsp, DeliveryPoint |-> dp,
     Notification |-> "nil", nrRetries |-> 0, backoffTime |-> 0, PreviousTry |-> <<>>]

\* The request unsubscribe builds: the fields it does not set stay zero.
NewUnsubscribeRequest(req, subscriber, dp) ==
    [ID |-> req.ID, Action |-> "UNSUBSCRIBE", RequestSenderAddr |-> req.RequestSenderAddr,
     Service |-> req.Service, Subscribers |-> <<subscriber>>,
     PushServiceProvider |-> NoPsp, DeliveryPoint |-> dp,
     Notification |-> "nil", nrRetries |-> 0, backoffTime |-> 0, PreviousTry |-> <<>>]

\* IsDirect with the delivery point test inverted.
IsDirect_Inverted(req) ==
    /\ Len(req.Subscribers) = 1
    /\ req.PushServiceProvider # NoPsp
    /\ req.DeliveryPoint = NoDp

\* Process's test for the direct path.
IsDirect(req) ==
    /\ Len(req.Subscribers) = 1
    /\ req.PushServiceProvider # NoPsp
    /\ req.DeliveryPoint # NoDp

\* Process's test for one goroutine per subscriber.
IsPerSubscriber(req) == Len(req.Subscribers) <= max_nr_gorountines

nr_subs_per_goroutine(req) == Len(req.Subscribers) \div max_nr_gorountines
nr_subs_last_goroutine(req) == Len(req.Subscribers) % max_nr_gorountines

\* The bound of Process's batching loop.
BulkLoopEnd(req) == Len(req.Subscribers) - nr_subs_last_goroutine(req)

\* LoopSubscriber when every goroutine sees the loop variable's last value.
LoopSubscriber_Captured(req, pos) == req.Subscribers[Len(req.Subscribers)]

\* The subscriber of one iteration of "for _, sub := range req.Subscribers".
LoopSubscriber(req, pos) == req.Subscribers[pos + 1]

\* BatchSlice without the loop position: every batch starts at 0.
BatchSlice_FromStart(req, pos) ==
    Slice(req.Subscribers, 0, nr_subs_per_goroutine(req))

\* The batch of one iteration of the batching loop.
BatchSlice(req, pos) ==
    Slice(req.Subscribers, pos, pos + nr_subs_per_goroutine(req))

\* The batch of the subscribers the loop left over.
LastBatch(req, pos) == Slice(req.Subscribers, pos, Len(req.Subscribers))

\* PushIt comparing with the last attempted delivery point only.
PushIt_LastOnly(chked_dps, dp) ==
    Len(chked_dps) = 0 \/ chked_dps[Len(chked_dps)] # dp

\* push's scan of chked_dps: TRUE unless dp was attempted in this resolution.
PushIt(chked_dps, dp) == \A i \in 1..Len(chked_dps) : chked_dps[i] # dp

\* --------------------------------------------------------- response sink
NewSink == [responded |-> 0, finished |-> 0, late |-> 0]

\* Request.Respond, n times.
Responded(sk, n) ==
    [sk EXCEPT !.responded = @ + n,
               !.late = IF sk.finished > 0 THEN @ + n ELSE @]

\* Request.Finish.
Finished(sk) == [sk EXCEPT !.finished = @ + 1]

\* RefreshWrites with "else if" for the delivery point.
RefreshWrites_ElseIf(out) ==
    IF out.psp THEN << <<"ModifyPushServiceProvider", "">> >>
    ELSE IF out.dp THEN << <<"ModifyDeliveryPoint", "">> >>
    ELSE <<>>

\* ------------------------------------------------------ delivery attempt
\* refreshData: the storage writes it makes, in order.
RefreshWrites(out) ==
    (IF out.psp THEN << <<"ModifyPushServiceProvider", "">> >> ELSE <<>>)
    \o (IF out.dp THEN << <<"ModifyDeliveryPoint", "">> >> ELSE <<>>)

\* ClassifiedError when refreshData returns nil whatever OtherError holds.
ClassifiedError_DropsUnderlying(out) ==
    IF out.kind = "refresh" THEN NoError ELSE [kind |-> out.kind, ra |-> out.ra]

\* The error pushToDeliveryPoint switches on: refreshData's return value for
\* a RefreshDataError, the backend's error otherwise.
ClassifiedError(out) ==
    IF out.kind = "refresh" THEN out.other ELSE [kind |-> out.kind, ra |-> out.ra]

\* The goroutine pushRetry starts.
NewTask(req, retryAfter, subscriber, psp, dp) ==
    [req |-> req, retryAfter |-> retryAfter, subscriber |-> subscriber,
     psp |-> psp, dp |-> dp, pc |-> "start", newreq |-> <<>>, waitTime |-> 0]

\* pushToDeliveryPoint up to (not including) the channel send of unsubscribe:
\* the calls made in order (psm.Push and what it returned first), the
\* responds, the recycles, the retry goroutine started, and whether
\* unsubscribe is entered.
PushToDeliveryPoint(req, subscriber, psp, dp, out) ==
    LET err == ClassifiedError(out)
        pre == << <<"Push", dp, psp>>, <<"PushResult", out>> >>
               \o (IF out.kind = "refresh" THEN RefreshWrites(out) ELSE <<>>)
    IN  CASE err.kind = "nil" ->
               [ev |-> pre \o << <<"Recycle", "">> >>,
                responds |-> 0, recycles |-> 1, spawn |-> {}, unsub |-> FALSE]
          [] err.kind = "retry" ->
               [ev |-> pre \o << <<"Respond", "retry">>, <<"go retryRequest", "">> >>,
                responds |-> 1, recycles |-> 0,
                spawn |-> {NewTask(req, err.ra, subscriber, psp, dp)},
                unsub |-> FALSE]
          [] err.kind = "unreg" ->
               [ev |-> pre \o << <<"Respond", "unreg">> >>,
                responds |-> 1, recycles |-> 0, spawn |-> {}, unsub |-> TRUE]
          [] OTHER ->
               [ev |-> pre \o << <<"Respond", "other">>, <<"Recycle", "">> >>,
                responds |-> 1, recycles |-> 1, spawn |-> {}, unsub |-> FALSE]

\* -------------------------------------------------------------- workers
\* The goroutine started by "go p.push(req, sub, wg)" (bulk = FALSE, one
\* subscriber) or "go p.pushBulk(req, subs, wg)" (bulk = TRUE).
NewWorker(req, subs, bulk) ==
    [req |-> req, subs |-> subs, bulk |-> bulk, si |-> 1, pc |-> "lookup",
     pairs |-> <<>>, pi |-> 0, chked_dps |-> <<>>]

\* push returns: pushBulk goes on to its next subscriber, and the goroutine
\* ends (wg.Done) after the last.
PushReturns(w) ==
    IF w.si < Len(w.subs)
    THEN [w EXCEPT !.si = @ + 1, !.pc = "lookup", !.pairs = <<>>, !.pi = 0,
                   !.chked_dps = <<>>]
    ELSE [w EXCEPT !.pc = "done"]

\* The end of one iteration of push's loop over the pairs.
NextPair(w) ==
    IF w.pi < Len(w.pairs)
    THEN [w EXCEPT !.pi = @ + 1]
    ELSE PushReturns(w)

\* wg.Done when the goroutine w became ends.
WgAfter(wg, w) == IF w.pc = "done" THEN wg - 1 ELSE wg

\* How a lookup shows in the trace.
LookupTag(res) ==
    IF ~res.err THEN "ok"
    ELSE IF Len(res.pairs) > 0 THEN "err+pairs" ELSE "err"

\* What the storage may answer for a subscriber: its pairs, or an error with
\* nothing or with the pairs.
LookupResults(subscriber) ==
    {[pairs |-> db[subscriber], err |-> FALSE],
     [pairs |-> <<>>, err |-> TRUE],
     [pairs |-> db[subscriber], err |-> TRUE]}

\* ProcessReturns without the deferred Finish.
ProcessReturns_NoFinish(sk) == sk

\* ProcessReturns with a respond(nil) ahead of the deferred Finish.
ProcessReturns_AlsoResponds(sk) == Finished(Responded(sk, 1))

\* ------------------------------------------------------------- Process
\* The deferred req.Finish() of Process.
ProcessReturns(sk) == Finished(sk)

\* WaitReturns when Process does not wait for the counter to reach zero.
WaitReturns_NoWait(wg) == TRUE

\* WaitReturns when the counter is one short: wg.Add after the first go.
WaitReturns_OneShort(wg) == wg <= 1

\* WaitReturns when Process also joins the retry goroutines it started.
WaitReturns_JoinsRetries(wg) == wg = 0 /\ \A t \in tasks : t.pc = "done"

\* wg.Wait() returns.
WaitReturns(wg) == wg = 0

SubscriberSet(req) == {req.Subscribers[i] : i \in 1..Len(req.Subscribers)}

\* Process is called on req.
Called(req) ==
    /\ proc' = [x \in DOMAIN proc \cup {req} |->
                  IF x = req THEN [pc |-> "start", pos |-> 0, wg |-> 0] ELSE proc[x]]
    /\ sink' = [x \in DOMAIN sink \cup {req} |->
                  IF x = req THEN NewSink ELSE sink[x]]
    /\ trace' = [x \in DOMAIN trace \cup {req} |->
                  IF x = req THEN [s \in SubscriberSet(req) |-> <<>>] ELSE trace[x]]

\* Direct path: one synchronous pushToDeliveryPoint, then the deferred Finish
\* (after unsubscribe's send, when that is entered).
ProcessDirect(r, out) ==
    /\ r \in DOMAIN proc
    /\ proc[r].pc = "start"
    /\ IsDirect(r)
    /\ LET sub == r.Subscribers[1]
           eff == PushToDeliveryPoint(r, sub, r.PushServiceProvider, r.DeliveryPoint, out)
       IN  /\ trace' = [trace EXCEPT ![r][sub] = @ \o eff.ev]
           /\ tasks' = tasks \cup eff.spawn
           /\ recycled' = recycled + eff.recycles
           /\ proc' = [proc EXCEPT ![r].pc = IF eff.unsub THEN "unsub" ELSE "done"]
           /\ sink' = [sink EXCEPT ![r] =
                         IF eff.unsub THEN Responded(@, eff.responds)
                         ELSE ProcessReturns(Responded(@, eff.responds))]
    /\ UNCHANGED <<max_nr_gorountines, max_nr_retry, root, db, workers, backendch>>

\* Direct path, unsubscribe: the send on backendch, then Process returns.
ProcessUnsubscribe(r) ==
    /\ r \in DOMAIN proc
    /\ proc[r].pc = "unsub"
    /\ Len(backendch) < ChanCap
    /\ LET sub == r.Subscribers[1]
       IN  /\ backendch' = Append(backendch, NewUnsubscribeRequest(r, sub, r.DeliveryPoint))
           /\ trace' = [trace EXCEPT ![r][sub] = Append(@, <<"unsubscribe", r.DeliveryPoint>>)]
    /\ proc' = [proc EXCEPT ![r].pc = "done"]
    /\ sink' = [sink EXCEPT ![r] = ProcessReturns(@)]
    /\ UNCHANGED <<max_nr_gorountines, max_nr_retry, root, db, workers, tasks, recycled>>

\* Not the direct path: Process chooses between one goroutine per subscriber
\* and batches.
ProcessStart(r) ==
    /\ r \in DOMAIN proc
    /\ proc[r].pc = "start"
    /\ ~IsDirect(r)
    /\ proc' = [proc EXCEPT ![r].pc =
                  IF IsPerSubscriber(r)
                  THEN (IF Len(r.Subscribers) > 0 THEN "loop" ELSE "wait")
                  ELSE "bulk"]
    /\ UNCHANGED <<max_nr_gorountines, max_nr_retry, root, db, sink, trace, workers,
                   tasks, backendch, recycled>>

\* One iteration of "for _, sub := range req.Subscribers".
ProcessGoPush(r) ==
    /\ r \in DOMAIN proc
    /\ proc[r].pc = "loop"
    /\ LET pos == proc[r].pos
       IN  /\ workers' = Append(workers, NewWorker(r, <<LoopSubscriber(r, pos)>>, FALSE))
           /\ proc' = [proc EXCEPT ![r].wg = @ + 1,
                                   ![r].pos = pos + 1,
                                   ![r].pc = IF pos + 1 < Len(r.Subscribers)
                                             THEN "loop" ELSE "wait"]
    /\ UNCHANGED <<max_nr_gorountines, max_nr_retry, root, db, sink, trace, tasks,
                   backendch, recycled>>

\* One iteration of the batching loop.
ProcessGoPushBulk(r) ==
    /\ r \in DOMAIN proc
    /\ proc[r].pc = "bulk"
    /\ LET pos == proc[r].pos
           next == pos + nr_subs_per_goroutine(r)
       IN  /\ workers' = Append(workers, NewWorker(r, BatchSlice(r, pos), TRUE))
           /\ proc' = [proc EXCEPT ![r].wg = @ + 1,
                                   ![r].pos = next,
                                   ![r].pc = IF next < BulkLoopEnd(r)
                                             THEN "bulk" ELSE "bulklast"]
    /\ UNCHANGED <<max_nr_gorountines, max_nr_retry, root, db, sink, trace, tasks,
                   backendch, recycled>>

\* "if pos < len(req.Subscribers)": the batch of the remaining subscribers.
ProcessGoPushBulkLast(r) ==
    /\ r \in DOMAIN proc
    /\ proc[r].pc = "bulklast"
    /\ LET pos == proc[r].pos
           n == Len(r.Subscribers)
       IN  IF pos < n
           THEN /\ workers' = Append(workers, NewWorker(r, LastBatch(r, pos), TRUE))
                /\ proc' = [proc EXCEPT ![r].wg = @ + 1, ![r].pc = "wait"]
           ELSE /\ workers' = workers
                /\ proc' = [proc EXCEPT ![r].pc = "wait"]
    /\ UNCHANGED <<max_nr_gorountines, max_nr_retry, root, db, sink, trace, tasks,
                   backendch, recycled>>

\* wg.Wait() returns and Process with it.
ProcessWait(r) ==
    /\ r \in DOMAIN proc
    /\ proc[r].pc = "wait"
    /\ WaitReturns(proc[r].wg)
    /\ proc' = [proc EXCEPT ![r].pc = "done"]
    /\ sink' = [sink EXCEPT ![r] = ProcessReturns(@)]
    /\ UNCHANGED <<max_nr_gorountines, max_nr_retry, root, db, trace, workers, tasks,
                   backendch, recycled>>

\* ------------------------------------------------------------------ push
\* push up to its loop: the storage lookup, the respond of a storage error,
\* the respond and return on an empty pair list.
PushLookup(w, res) ==
    /\ w \in 1..Len(workers)
    /\ workers[w].pc = "lookup"
    /\ LET me == workers[w]
           r == me.req
           sub == me.subs[me.si]
           empty == Len(res.pairs) <= 0
           ev == << <<"Lookup", LookupTag(res)>> >>
                 \o (IF res.err THEN << <<"Respond", "storage">> >> ELSE <<>>)
                 \o (IF empty THEN << <<"Respond", "nodevice">> >> ELSE <<>>)
           n == (IF res.err THEN 1 ELSE 0) + (IF empty THEN 1 ELSE 0)
           after == IF empty THEN PushReturns(me)
                    ELSE [me EXCEPT !.pc = "iter", !.pairs = res.pairs, !.pi = 1]
       IN  /\ res \in LookupResults(sub)
           /\ trace' = [trace EXCEPT ![r][sub] = @ \o ev]
           /\ sink' = [sink EXCEPT ![r] = Responded(@, n)]
           /\ workers' = [workers EXCEPT ![w] = after]
           /\ proc' = [proc EXCEPT ![r].wg = WgAfter(@, after)]
    /\ UNCHANGED <<max_nr_gorountines, max_nr_retry, root, db, tasks, backendch, recycled>>

\* One iteration of push's loop over the pairs.
PushIter(w, out) ==
    /\ w \in 1..Len(workers)
    /\ workers[w].pc = "iter"
    /\ LET me == workers[w]
           r == me.req
           sub == me.subs[me.si]
           pdpair == me.pairs[me.pi]
           eff == PushToDeliveryPoint(r, sub, pdpair.psp, pdpair.dp, out)
           pushed == NextPair([me EXCEPT !.chked_dps = Append(@, pdpair.dp)])
       IN  IF PushIt(me.chked_dps, pdpair.dp)
           THEN /\ trace' = [trace EXCEPT ![r][sub] = @ \o eff.ev]
                /\ tasks' = tasks \cup eff.spawn
                /\ recycled' = recycled + eff.recycles
                /\ sink' = [sink EXCEPT ![r] = Responded(@, eff.responds)]
                /\ workers' = [workers EXCEPT ![w] =
                                 IF eff.unsub THEN [me EXCEPT !.pc = "unsub"] ELSE pushed]
                /\ proc' = [proc EXCEPT ![r].wg =
                              IF eff.unsub THEN @ ELSE WgAfter(@, pushed)]
           ELSE /\ workers' = [workers EXCEPT ![w] = NextPair(me)]
                /\ proc' = [proc EXCEPT ![r].wg = WgAfter(@, NextPair(me))]
                /\ UNCHANGED <<trace, tasks, recycled, sink>>
    /\ UNCHANGED <<max_nr_gorountines, max_nr_retry, root, db, backendch>>

\* unsubscribe's send on backendch inside a worker, then the loop goes on.
PushUnsubscribe(w) ==
    /\ w \in 1..Len(workers)
    /\ workers[w].pc = "unsub"
    /\ Len(backendch) < ChanCap
    /\ LET me == workers[w]
           r == me.req
           sub == me.subs[me.si]
           dp == me.pairs[me.pi].dp
           after == NextPair([me EXCEPT !.pc = "iter", !.chked_dps = Append(@, dp)])
       IN  /\ backendch' = Append(backendch, NewUnsubscribeRequest(r, sub, dp))
           /\ trace' = [trace EXCEPT ![r][sub] = Append(@, <<"unsubscribe", dp>>)]
           /\ workers' = [workers EXCEPT ![w] = after]
           /\ proc' = [proc EXCEPT ![r].wg = WgAfter(@, after)]
    /\ UNCHANGED <<max_nr_gorountines, max_nr_retry, root, db, sink, tasks, recycled>>

\* ---------------------------------------------------------- retryRequest
\* retryRequest up to its sleep: the limit test, the new request, the wait.
RetryRequestBegin(t) ==
    /\ t \in tasks
    /\ t.pc = "start"
    /\ LET newreq == NewRetryRequest(t.req, t.subscriber, t.psp, t.dp)
           after == IF ShouldRetry(t.req)
                    THEN [t EXCEPT !.pc = "sleep", !.newreq = <<newreq>>,
                                   !.waitTime = WaitTime(newreq.backoffTime, t.retryAfter)]
                    ELSE [t EXCEPT !.pc = "done"]
       IN  tasks' = (tasks \ {t}) \cup {after}
    /\ UNCHANGED <<max_nr_gorountines, max_nr_retry, root, db, proc, sink, trace,
                   workers, backendch, recycled>>

\* The sleep is over and the new request is sent on backendch.
RetryRequestSend(t) ==
    /\ t \in tasks
    /\ t.pc = "sleep"
    /\ Len(backendch) < ChanCap
    /\ backendch' = Append(backendch, t.newreq[1])
    /\ tasks' = (tasks \ {t}) \cup {[t EXCEPT !.pc = "done"]}
    /\ UNCHANGED <<max_nr_gorountines, max_nr_retry, root, db, proc, sink, trace,
                   workers, recycled>>

\* The reader of backendch: a PUSH request comes back to Process, an
\* UNSUBSCRIBE request goes to another processor.
BackendReceive ==
    /\ Len(backendch) > 0
    /\ backendch' = Tail(backendch)
    /\ IF Head(backendch).Action = "PUSH"
       THEN Called(Head(backendch))
       ELSE UNCHANGED <<proc, sink, trace>>
    /\ UNCHANGED <<max_nr_gorountines, max_nr_retry, root, db, workers, tasks, recycled>>

\* ------------------------------------------------------- specifications
InitWith(cap, retry, req, store) ==
    /\ max_nr_gorountines = cap
    /\ max_nr_retry = retry
    /\ root = req
    /\ db = store
    /\ proc = [x \in {req} |-> [pc |-> "start", pos |-> 0, wg |-> 0]]
    /\ sink = [x \in {req} |-> NewSink]
    /\ trace = [x \in {req} |-> [s \in SubscriberSet(req) |-> <<>>]]
    /\ workers = <<>>
    /\ tasks = {}
    /\ backendch = <<>>
    /\ recycled = 0

FanOutRequest(n) == Request([i \in 1..n |-> i], NoPsp, NoDp)
DirectRequest(psp, dp) == Request(<<1>>, psp, dp)

RECURSIVE Stored(_)
\* The number of pairs a storage holds.
Stored(store) ==
    IF DOMAIN store = {} THEN 0
    ELSE LET i == CHOOSE x \in DOMAIN store : TRUE
         IN Len(store[i]) + Stored([x \in DOMAIN store \ {i} |-> store[x]])

\* The storage contents tried for one subscriber in the general scenarios.
FanPairLists ==
    {<<>>,
     <<[psp |-> "p", dp |-> "A"]>>,
     <<[psp |-> "p", dp |-> "A"], [psp |-> "q", dp |-> "A"]>>,
     <<[psp |-> "p", dp |-> "A"], [psp |-> "q", dp |-> "B"]>>}

\* The backend's answers tried in the general scenarios: every kind, no
\* retry-after hint, and the refresh that clears the error.
FanResults ==
    {o \in PushResults :
        o.ra = 0 /\ (o.kind = "refresh" => o.psp /\ o.dp /\ o.other.kind = "nil")}

\* Spec: any request within the bounds, on any of the three paths: a list
\* of subscribers, or one subscriber with a provider and with or without a
\* delivery point.
Init ==
    \E cap \in 1..MaxCap, retry \in 0..MaxRetryCfg, n \in 0..MaxSubs :
        \/ \E store \in [1..n -> FanPairLists] :
              /\ Stored(store) <= MaxStored
              /\ InitWith(cap, retry, FanOutRequest(n), store)
        \/ /\ n = 1
           /\ \E dp \in {"A", NoDp} :
                 InitWith(cap, retry, DirectRequest("p", dp),
                          [i \in 1..1 |-> <<[psp |-> "p", dp |-> "A"]>>])

Next ==
    \/ \E r \in DOMAIN proc : \E out \in FanResults : ProcessDirect(r, out)
    \/ \E r \in DOMAIN proc : ProcessUnsubscribe(r)
    \/ \E r \in DOMAIN proc : ProcessStart(r)
    \/ \E r \in DOMAIN proc : ProcessGoPush(r)
    \/ \E r \in DOMAIN proc : ProcessGoPushBulk(r)
    \/ \E r \in DOMAIN proc : ProcessGoPushBulkLast(r)
    \/ \E r \in DOMAIN proc : ProcessWait(r)
    \/ \E w \in 1..Len(workers) :
          \E res \in LookupResults(workers[w].subs[workers[w].si]) : PushLookup(w, res)
    \/ \E w \in 1..Len(workers) : \E out \in FanResults : PushIter(w, out)
    \/ \E w \in 1..Len(workers) : PushUnsubscribe(w)
    \/ \E t \in tasks : RetryRequestBegin(t)
    \/ \E t \in tasks : RetryRequestSend(t)
    \/ BackendReceive

Spec == Init /\ [][Next]_vars

\* SpecBulk: the batched path. More subscribers than the cap, each with one
\* delivery point; the backend answers success or a final error.
BulkResults == {o \in PushResults : o.kind \in {"nil", "other"}}

InitBulk ==
    \E cap \in 1..MaxCap : \E n \in (cap + 1)..MaxBulkSubs :
        InitWith(cap, 0, FanOutRequest(n), [i \in 1..n |-> <<[psp |-> "p", dp |-> "A"]>>])

NextBulk ==
    \/ \E r \in DOMAIN proc : ProcessStart(r)
    \/ \E r \in DOMAIN proc : ProcessGoPushBulk(r)
    \/ \E r \in DOMAIN proc : ProcessGoPushBulkLast(r)
    \/ \E r \in DOMAIN proc : ProcessWait(r)
    \/ \E w \in 1..Len(workers) :
          \E res \in LookupResults(workers[w].subs[workers[w].si]) : PushLookup(w, res)
    \/ \E w \in 1..Len(workers) : \E out \in BulkResults : PushIter(w, out)

SpecBulk == InitBulk /\ [][NextBulk]_vars

\* SpecChain: one delivery chain. A direct request with the default retry
\* limit, every answer of the backend, the retries coming back to Process.
InitChain ==
    \E cap \in 1..MaxCap :
        InitWith(cap, DefaultMaxRetry, DirectRequest("p", "A"), [i \in 1..1 |-> <<>>])

NextChain ==
    \/ \E r \in DOMAIN proc : \E out \in PushResults : ProcessDirect(r, out)
    \/ \E r \in DOMAIN proc : ProcessUnsubscribe(r)
    \/ \E t \in tasks : RetryRequestBegin(t)
    \/ \E t \in tasks : RetryRequestSend(t)
    \/ BackendReceive

SpecChain == InitChain /\ [][NextChain]_vars

\* The goroutines of the chain are scheduled and backendch is read.
FairSpecChain == SpecChain /\ WF_vars(NextChain)

\* SpecDedup: one subscriber whose pair list repeats delivery points.
DedupPairs ==
    {[psp |-> "p", dp |-> "A"], [psp |-> "p", dp |-> "B"],
     [psp |-> "p", dp |-> "C"], [psp |-> "q", dp |-> "A"]}

DedupResults == {o \in PushResults : o.kind # "refresh" /\ o.ra = 0}

InitDedup ==
    \E store \in [1..1 -> SeqsUpTo(DedupPairs, MaxDedupPairs)] :
        InitWith(1, 0, FanOutRequest(1), store)

NextDedup ==
    \/ \E r \in DOMAIN proc : ProcessStart(r)
    \/ \E r \in DOMAIN proc : ProcessGoPush(r)
    \/ \E r \in DOMAIN proc : ProcessWait(r)
    \/ \E w \in 1..Len(workers) :
          \E res \in LookupResults(workers[w].subs[workers[w].si]) : PushLookup(w, res)
    \/ \E w \in 1..Len(workers) : \E out \in DedupResults : PushIter(w, out)
    \/ \E w \in 1..Len(workers) : PushUnsubscribe(w)
    \/ \E t \in tasks : RetryRequestBegin(t)
    \/ BackendReceive

SpecDedup == InitDedup /\ [][NextDedup]_vars

\* SpecShare: one notification shared by several delivery attempts. Either
\* one subscriber with two delivery points, or several subscribers with one
\* each; one retry allowed, the retries coming back to Process. The backend
\* answers every plain kind, or an UnregisteredError inside a refresh.
ShareResults ==
    {o \in PushResults :
        o.ra = 0 /\ (o.kind = "refresh" => o.psp /\ o.dp /\ o.other.kind = "unreg")}

InitShare ==
    \E n \in 1..MaxSharers :
        InitWith(MaxSharers, 1, FanOutRequest(n),
                 [i \in 1..n |-> IF n = 1
                                 THEN <<[psp |-> "p", dp |-> "A"], [psp |-> "q", dp |-> "B"]>>
                                 ELSE <<[psp |-> "p", dp |-> "A"]>>])

NextShare ==
    \/ \E r \in DOMAIN proc : \E out \in ShareResults : ProcessDirect(r, out)
    \/ \E r \in DOMAIN proc : ProcessUnsubscribe(r)
    \/ \E r \in DOMAIN proc : ProcessStart(r)
    \/ \E r \in DOMAIN proc : ProcessGoPush(r)
    \/ \E r \in DOMAIN proc : ProcessWait(r)
    \/ \E w \in 1..Len(workers) :
          \E res \in LookupResults(workers[w].subs[workers[w].si]) : PushLookup(w, res)
    \/ \E w \in 1..Len(workers) : \E out \in ShareResults : PushIter(w, out)
    \/ \E w \in 1..Len(workers) : PushUnsubscribe(w)
    \/ \E t \in tasks : RetryRequestBegin(t)
    \/ \E t \in tasks : RetryRequestSend(t)
    \/ BackendReceive

SpecShare == InitShare /\ [][NextShare]_vars

\* The steps of Process, of its workers and of the reader of backendch: all
\* but those of the retry goroutines.
JoinedSteps ==
    \/ \E r \in DOMAIN proc : \E out \in ShareResults : ProcessDirect(r, out)
    \/ \E r \in DOMAIN proc : ProcessUnsubscribe(r)
    \/ \E r \in DOMAIN proc : ProcessStart(r)
    \/ \E r \in DOMAIN proc : ProcessGoPush(r)
    \/ \E r \in DOMAIN proc : ProcessWait(r)
    \/ \E w \in 1..Len(workers) :
          \E res \in LookupResults(workers[w].subs[workers[w].si]) : PushLookup(w, res)
    \/ \E w \in 1..Len(workers) : \E out \in ShareResults : PushIter(w, out)
    \/ \E w \in 1..Len(workers) : PushUnsubscribe(w)
    \/ BackendReceive

\* Process and its workers are scheduled, every lookup and push returns and
\* backendch is read; a retry goroutine may sleep forever.
FairSpecShare == SpecShare /\ WF_vars(JoinedSteps)

\* ================================================================ claims
\* The calls named op in a trace.
Calls(tr, op) == SelectSeq(tr, LAMBDA e : e[1] = op)

\* The delivery points attempted for subscriber s of request r, in order.
Attempts(r, s) == [i \in 1..Len(Calls(trace[r][s], "Push")) |-> Calls(trace[r][s], "Push")[i][2]]

WorkersOf(r) == {w \in 1..Len(workers) : workers[w].req = r}

\* A request with exactly one subscriber and a pre-resolved pair.
PreResolved(r) ==
    /\ Len(r.Subscribers) = 1
    /\ r.PushServiceProvider # NoPsp
    /\ r.DeliveryPoint # NoDp

\* A request with more subscribers than the worker cap.
OverCap(r) == Len(r.Subscribers) > max_nr_gorountines

\* C1: every Process call invokes finish() on its request exactly once: a
\* request whose Process has returned has been finished once, on every path
\* and for every outcome, and a request whose Process is still running has
\* not been finished.
C1_FinishExactlyOnce ==
    \A r \in DOMAIN proc :
        sink[r].finished = IF proc[r].pc = "done" THEN 1 ELSE 0

\* C1 witness: a fan-out request all of whose subscribers failed has
\* returned and is finished once.
C1_Witness ==
    /\ proc[root].pc = "done"
    /\ Len(workers) >= 2
    /\ \A s \in SubscriberSet(root) : Calls(trace[root][s], "Respond") # <<>>
    /\ sink[root].finished = 1

\* C2: a request is finished only after every worker spawned for it has
\* completed: no finished request has a worker that is still running, or a
\* worker still to be spawned, or a nonzero wait-group counter.
C2_FinishAfterJoin ==
    \A r \in DOMAIN proc :
        sink[r].finished > 0 =>
            /\ \A w \in WorkersOf(r) : workers[w].pc = "done"
            /\ proc[r].wg = 0
            /\ ~PreResolved(r) =>
                 \A s \in SubscriberSet(r) : Calls(trace[r][s], "Lookup") # <<>>

\* C2 witness: a finished request with several workers, one of which made
\* a delivery attempt.
C2_Witness ==
    /\ sink[root].finished = 1
    /\ Cardinality(WorkersOf(root)) >= 2
    /\ \E s \in SubscriberSet(root) : Attempts(root, s) # <<>>

\* The retry requests built so far, each with the goroutine that built it.
Built == {t \in tasks : t.newreq # <<>>}

RECURSIVE SumLen(_, _)
\* The lengths of f's sequences over D, added up.
SumLen(f, D) ==
    IF D = {} THEN 0
    ELSE LET x == CHOOSE y \in D : TRUE IN Len(f[x]) + SumLen(f, D \ {x})

\* The delivery attempts made so far on the requests of the chain, each a
\* direct request.
TotalAttempts ==
    SumLen([r \in DOMAIN proc |-> Calls(trace[r][r.Subscribers[1]], "Push")],
           DOMAIN proc)

\* Every request there is: processed, queued, or built by a retry goroutine.
AllRequests ==
    DOMAIN proc \cup {backendch[i] : i \in 1..Len(backendch)}
                \cup {t.newreq[1] : t \in Built}

\* Nothing of the chain is left to run.
Quiescent ==
    /\ backendch = <<>>
    /\ \A t \in tasks : t.pc = "done"
    /\ \A r \in DOMAIN proc : proc[r].pc = "done"

C3_Budget ==
    /\ \A t \in Built : t.req.nrRetries < max_nr_retry
    /\ \A t \in tasks : (t.req.nrRetries >= max_nr_retry /\ t.pc # "start") => t.pc = "done"
    /\ \A r \in AllRequests : r.nrRetries <= max_nr_retry
    /\ Cardinality(Built) <= max_nr_retry
    /\ TotalAttempts <= max_nr_retry + 1

\* C3: after a Retryable outcome on a request with nrRetries >= max_nr_retry
\* (3) no retry request is built or enqueued; a delivery chain makes at most
\* max_nr_retry + 1 attempts and builds at most max_nr_retry retry requests,
\* whatever the backend answers, and the chain comes to rest with no retry
\* pending.
C3_RetryBudget == [](C3_Budget) /\ <>[](Quiescent)

\* C3 witness: the backend answered Retryable four times: the fourth
\* goroutine returned without a retry, three retries were built, four
\* attempts made.
C3_Witness ==
    /\ \E t \in tasks : t.req.nrRetries = max_nr_retry /\ t.pc = "done" /\ t.newreq = <<>>
    /\ Cardinality(Built) = max_nr_retry
    /\ TotalAttempts = max_nr_retry + 1
    /\ Quiescent

\* The backoff of the k-th retry of a chain that starts at attemptCount 0.
BackoffTable == <<3, 6, 12>>

\* C4: in a chain starting at attemptCount 0 the backoff stored in the
\* successive retry requests is 3, 6, 12: 3 in the first, twice the previous
\* request's backoff in every later one; without a retry-after hint the wait
\* before the retry is enqueued is that backoff.
C4_BackoffSequence ==
    \A t \in Built :
        LET q == t.newreq[1]
        IN  /\ q.backoffTime = BackoffTable[q.nrRetries]
            /\ q.nrRetries = 1 => q.backoffTime = 3
            /\ q.nrRetries > 1 => q.backoffTime = 2 * t.req.backoffTime
            /\ t.retryAfter = 0 => t.waitTime = q.backoffTime

\* C4 witness: three retries without a hint: waits and backoffs 3, 6, 12.
C4_Witness ==
    \A k \in 1..3 :
        \E t \in Built :
            /\ t.newreq[1].nrRetries = k
            /\ t.retryAfter = 0
            /\ t.waitTime = BackoffTable[k]
            /\ t.newreq[1].backoffTime = BackoffTable[k]

\* C5: with a retry-after hint > 0 the wait before the retry is enqueued is
\* the hint, while the backoff stored in the retry request is the computed
\* one, so the retry of a request that was itself scheduled with a hint
\* doubles the computed backoff and not the hint.
C5_RetryAfterOverride ==
    \A t \in Built :
        LET q == t.newreq[1]
        IN  /\ t.retryAfter > 0 =>
                 /\ t.waitTime = t.retryAfter
                 /\ q.backoffTime = BackoffTable[q.nrRetries]
            /\ \A u \in Built :
                 (u.newreq[1] = t.req /\ u.retryAfter > 0) =>
                     /\ q.backoffTime = 2 * u.newreq[1].backoffTime
                     /\ q.backoffTime # 2 * u.waitTime

\* C5 witness: retry-after 10 on the first failure: the retry waited 10 and
\* stores backoff 3; the retry of that retry stores backoff 6.
C5_Witness ==
    \E t, u \in Built :
        /\ u.req = root /\ u.retryAfter = 10 /\ u.waitTime = 10
        /\ u.newreq[1].backoffTime = 3
        /\ t.req = u.newreq[1]
        /\ t.newreq[1].backoffTime = 6

\* The workers spawned so far that have not ended.
Running == {w \in 1..Len(workers) : workers[w].pc # "done"}

\* Process has spawned every worker it will spawn for r.
Spawned(r) == proc[r].pc \in {"wait", "done"}

RECURSIVE Concat(_)
\* The concatenation of a sequence of sequences.
Concat(ss) == IF ss = <<>> THEN <<>> ELSE Head(ss) \o Concat(Tail(ss))

\* The subscribers handed to the workers, in spawn order.
Batches == [w \in 1..Len(workers) |-> workers[w].subs]

\* C6: for N subscribers > cap, Process makes exactly cap batches and spawns
\* exactly cap workers, so that no more than cap workers of one request run
\* at a time, for every N.
C6_ExactlyCapBatches ==
    OverCap(root) =>
        /\ Cardinality(Running) <= max_nr_gorountines
        /\ Spawned(root) => Len(workers) = max_nr_gorountines

\* C7: on the batched path the batches are contiguous, disjoint slices whose
\* concatenation in spawn order is the subscriber sequence; every subscriber
\* is resolved exactly once when Process returns, and never twice.
C7_BatchesPartition ==
    OverCap(root) =>
        /\ Concat(Batches) = SubSeq(root.Subscribers, 1, Len(Concat(Batches)))
        /\ \A w \in 1..Len(workers) : workers[w].subs # <<>>
        /\ Spawned(root) => Concat(Batches) = root.Subscribers
        /\ \A s \in SubscriberSet(root) : Len(Calls(trace[root][s], "Lookup")) <= 1
        /\ proc[root].pc = "done" =>
             /\ \A s \in SubscriberSet(root) : Len(Calls(trace[root][s], "Lookup")) = 1
             /\ SumLen([s \in SubscriberSet(root) |-> Calls(trace[root][s], "Lookup")],
                       SubscriberSet(root)) = Len(root.Subscribers)

\* C7 witness: five subscribers under a cap of two were processed in the
\* batches of two, two and one.
C7_Witness ==
    /\ max_nr_gorountines = 2
    /\ Len(root.Subscribers) = 5
    /\ proc[root].pc = "done"
    /\ Batches = << <<1, 2>>, <<3, 4>>, <<5>> >>
    /\ \A s \in SubscriberSet(root) : Len(Calls(trace[root][s], "Lookup")) = 1

RECURSIVE FirstOccurrences(_)
\* A sequence without the repetitions of its earlier elements.
FirstOccurrences(q) ==
    IF q = <<>> THEN <<>>
    ELSE LET init == SubSeq(q, 1, Len(q) - 1)
             last == q[Len(q)]
         IN  IF \E i \in 1..Len(init) : init[i] = last
             THEN FirstOccurrences(init)
             ELSE Append(FirstOccurrences(init), last)

\* The pair list the lookup for subscriber s of the root request returned.
Returned(s) ==
    IF Calls(trace[root][s], "Lookup") = <<>> THEN <<>>
    ELSE IF Calls(trace[root][s], "Lookup")[1][2] = "err" THEN <<>>
    ELSE db[s]

\* The delivery points of a pair list.
Targets(pairs) == [i \in 1..Len(pairs) |-> pairs[i].dp]

\* The resolution of subscriber s of the root request is over.
Resolved(s) ==
    /\ Calls(trace[root][s], "Lookup") # <<>>
    /\ \A w \in 1..Len(workers) :
          workers[w].pc # "done" => workers[w].subs[workers[w].si] # s

\* C8: a fan-out request with N <= cap subscribers gets N workers, one per
\* subscriber, and exactly one lookup per subscriber; whatever the lookups
\* and attempts of the other subscribers gave, each subscriber whose lookup
\* returned pairs has each of its delivery points attempted.
C8_PerSubscriber ==
    (~PreResolved(root) /\ ~OverCap(root)) =>
        /\ \A w \in 1..Len(workers) :
              /\ ~workers[w].bulk
              /\ workers[w].subs = <<root.Subscribers[w]>>
        /\ \A s \in SubscriberSet(root) : Len(Calls(trace[root][s], "Lookup")) <= 1
        /\ proc[root].pc = "done" =>
              /\ Len(workers) = Len(root.Subscribers)
              /\ \A s \in SubscriberSet(root) :
                    /\ Len(Calls(trace[root][s], "Lookup")) = 1
                    /\ Attempts(root, s) = FirstOccurrences(Targets(Returned(s)))

\* C8 witness: of two subscribers one had a storage error and made no
\* attempt, the other was resolved and attempted.
C8_Witness ==
    /\ ~PreResolved(root)
    /\ Len(root.Subscribers) = 2
    /\ proc[root].pc = "done"
    /\ \E s, u \in SubscriberSet(root) :
          /\ Calls(trace[root][s], "Lookup") = << <<"Lookup", "err">> >>
          /\ Attempts(root, s) = <<>>
          /\ Attempts(root, u) # <<>>

\* C9: a request with one subscriber and a pre-resolved pair gets exactly one
\* delivery attempt, on that pair, with no lookup and no worker, and is then
\* finished.
C9_DirectPath ==
    \A r \in DOMAIN proc :
        PreResolved(r) =>
            LET tr == trace[r][r.Subscribers[1]]
            IN  /\ WorkersOf(r) = {}
                /\ Calls(tr, "Lookup") = <<>>
                /\ Len(Calls(tr, "Push")) <= 1
                /\ proc[r].pc # "start" =>
                      Calls(tr, "Push") =
                          << <<"Push", r.DeliveryPoint, r.PushServiceProvider>> >>
                /\ proc[r].pc = "done" => sink[r].finished = 1

\* C9 witness: the direct request the front end sent, and a retry request,
\* were attempted once each and finished.
C9_Witness ==
    /\ PreResolved(root)
    /\ proc[root].pc = "done"
    /\ Len(Calls(trace[root][1], "Push")) = 1
    /\ \E r \in DOMAIN proc :
          /\ r.nrRetries = 1
          /\ proc[r].pc = "done"
          /\ Len(Calls(trace[r][1], "Push")) = 1

\* C10: within one resolution each distinct delivery point of the returned
\* pair list is attempted exactly once, at its first occurrence, in the order
\* of the first occurrences, whatever the earlier attempts gave.
C10_Dedup ==
    \A s \in SubscriberSet(root) :
        LET want == FirstOccurrences(Targets(Returned(s)))
            got == Attempts(root, s)
        IN  /\ Len(got) <= Len(want)
            /\ got = SubSeq(want, 1, Len(got))
            /\ Resolved(s) => got = want

\* C10 witness: the pair list with the delivery points A, B, A, C was
\* attempted as A, B, C, the first of the attempts failing.
C10_Witness ==
    /\ Targets(db[1]) = <<"A", "B", "A", "C">>
    /\ Resolved(1)
    /\ Attempts(root, 1) = <<"A", "B", "C">>
    /\ Calls(trace[root][1], "Respond") # <<>>

\* ------------------------------------------------- delivery attempts
\* Every trace there is.
AllTraces == UNION {{trace[r][s] : s \in SubscriberSet(r)} : r \in DOMAIN proc}

\* The last call of the delivery attempt that starts at call i of tr.
AttemptEnd(tr, i) ==
    LET later == {j \in (i + 1)..Len(tr) : tr[j][1] \in {"Push", "Lookup"}}
    IN  IF later = {} THEN Len(tr)
        ELSE (CHOOSE j \in later : \A k \in later : j <= k) - 1

\* The delivery attempts made so far: the calls of each, from psm.Push on.
Deliveries ==
    UNION {{SubSeq(tr, i, AttemptEnd(tr, i)) :
               i \in {j \in 1..Len(tr) : tr[j][1] = "Push"}} : tr \in AllTraces}

\* The positions of the calls named in ops within a delivery attempt.
At(seg, ops) == {i \in 1..Len(seg) : seg[i][1] \in ops}

\* What the backend answered in a delivery attempt.
Answer(seg) == seg[2][2]

\* The kind of the error left after credential-refresh handling.
FailedWith(seg) ==
    IF Answer(seg).kind = "refresh" THEN Answer(seg).other.kind ELSE Answer(seg).kind

PersistOps == {"ModifyPushServiceProvider", "ModifyDeliveryPoint"}
HandoffOps == {"go retryRequest", "unsubscribe"}

\* C11 as stated: in every delivery attempt that ends in an error the error
\* is passed to respond() before any recovery action of the attempt: before
\* refreshed credentials are persisted, before the retry task is spawned and
\* before the unsubscribe request is enqueued.
C11_RespondBeforeRecovery ==
    \A seg \in Deliveries :
        FailedWith(seg) # "nil" =>
            /\ At(seg, {"Respond"}) # {}
            /\ \A i \in At(seg, PersistOps \cup HandoffOps) :
                  \E j \in At(seg, {"Respond"}) : j < i

\* C11 amended: in every delivery attempt that ends in an error the error
\* is passed to respond() exactly once, before the retry task is spawned and
\* before the unsubscribe request is enqueued; the refreshed credentials of
\* a credential-refresh error are persisted first, before the respond().
C11_RespondBeforeHandoff ==
    \A seg \in Deliveries :
        FailedWith(seg) # "nil" =>
            /\ Cardinality(At(seg, {"Respond"})) = 1
            /\ \A j \in At(seg, {"Respond"}) :
                  /\ seg[j] = <<"Respond", FailedWith(seg)>>
                  /\ \A i \in At(seg, HandoffOps) : j < i
                  /\ \A i \in At(seg, PersistOps) : i < j

\* C11 witness: one attempt persisted a refreshed provider, responded and
\* spawned a retry; another responded and enqueued an unsubscribe request.
C11_Witness ==
    /\ \E seg \in Deliveries :
          /\ At(seg, {"ModifyPushServiceProvider"}) # {}
          /\ At(seg, {"go retryRequest"}) # {}
    /\ \E seg \in Deliveries : At(seg, {"unsubscribe"}) # {}

\* The delivery attempts of request r.
DeliveriesOf(r) ==
    {seg \in Deliveries : \E s \in SubscriberSet(r) : \E i \in 1..Len(trace[r][s]) :
        /\ trace[r][s][i][1] = "Push"
        /\ seg = SubSeq(trace[r][s], i, AttemptEnd(trace[r][s], i))}

\* Some resolution or delivery attempt of request r ended in an error: a
\* storage error, a subscriber without a device, or a failed attempt.
SomeFailure(r) ==
    \/ \E s \in SubscriberSet(r) :
          /\ Calls(trace[r][s], "Lookup") # <<>>
          /\ \/ Calls(trace[r][s], "Lookup")[1][2] # "ok"
             \/ Calls(trace[r][s], "Push") = <<>>
    \/ \E seg \in DeliveriesOf(r) : FailedWith(seg) # "nil"

\* C12 as stated: every processed request has received at least one
\* respond() when it is finished, on every path and for every combination of
\* outcomes.
C12_RespondBeforeFinish ==
    \A r \in DOMAIN proc : sink[r].finished > 0 => sink[r].responded >= 1

\* C12 amended: every respond() of a processed request precedes its single
\* finish(); the caller has received at least one respond() by then exactly
\* when a resolution or a delivery attempt of the request ended in an error,
\* and none when every attempt succeeded or the subscriber list is empty.
C12_RespondOnFailureOnly ==
    \A r \in DOMAIN proc :
        /\ sink[r].late = 0
        /\ sink[r].finished <= 1
        /\ sink[r].finished > 0 => (sink[r].responded >= 1 <=> SomeFailure(r))

\* C12 witness: a request whose attempt failed was responded to and then
\* finished, and its retry, whose attempt succeeded, was finished without a
\* respond().
C12_Witness ==
    \E r, q \in DOMAIN proc :
        /\ sink[r].finished = 1 /\ sink[r].responded >= 1
        /\ q.PreviousTry = <<r>>
        /\ sink[q].finished = 1 /\ sink[q].responded = 0
        /\ \E seg \in DeliveriesOf(q) : FailedWith(seg) = "nil"

\* The retries that are pending: a retry goroutine that has not returned
\* and will send, a retry request on the channel, a retry request whose
\* Process has not returned.
PendingRetries ==
    {t.req : t \in {u \in tasks : \/ u.pc = "sleep"
                                  \/ u.pc = "start" /\ u.req.nrRetries < max_nr_retry}}
    \cup {backendch[i] : i \in {j \in 1..Len(backendch) : backendch[j].nrRetries > 0}}
    \cup {r \in DOMAIN proc : r.nrRetries > 0 /\ proc[r].pc # "done"}

\* C13: the notification is never released while a retry that references it
\* is pending: no step releases the payload and leaves a retry of the same
\* payload spawned but not yet processed to its end, in any interleaving of
\* the attempts of one request.
C13_NoReleaseWhilePending ==
    [][recycled' > recycled => PendingRetries' = {}]_vars

\* C14: a delivery chain (one attempt on a pair and all of its retries) that
\* has terminated, with no retry pending, has released the notification
\* exactly once, whichever outcome ended it, and no chain releases it twice.
C14_ReleasedExactlyOnce ==
    /\ recycled <= 1
    /\ Quiescent => recycled = 1

\* C15: when the storage lookup for a subscriber returns an error, the error
\* is reported through respond() and processing of that subscriber stops:
\* no delivery attempt is made for it and no further respond() is issued for
\* that resolution, whatever pair list came with the error.
C15_StorageErrorStops ==
    \A tr \in AllTraces :
        (Calls(tr, "Lookup") # <<>> /\ Calls(tr, "Lookup")[1][2] # "ok") =>
            /\ Calls(tr, "Respond") = << <<"Respond", "storage">> >>
            /\ Calls(tr, "Push") = <<>>

\* The delivery attempts made for subscriber s of request r.
DeliveriesFor(r, s) ==
    {SubSeq(trace[r][s], i, AttemptEnd(trace[r][s], i)) :
        i \in {j \in 1..Len(trace[r][s]) : trace[r][s][j][1] = "Push"}}

\* What an attempt answered Unregistered has done: one respond with the
\* error, no retry and no release, one unsubscribe for the attempted target
\* after the respond (made by the time Process returns).
C16_Attempt ==
    \A r \in DOMAIN proc : \A s \in SubscriberSet(r) : \A seg \in DeliveriesFor(r, s) :
        FailedWith(seg) = "unreg" =>
            /\ Calls(seg, "Respond") = << <<"Respond", "unreg">> >>
            /\ At(seg, {"go retryRequest", "Recycle"}) = {}
            /\ ~\E t \in tasks :
                  t.req = r /\ t.subscriber = s /\ t.dp = seg[1][2] /\ t.psp = seg[1][3]
            /\ Len(Calls(seg, "unsubscribe")) <= 1
            /\ \A i \in At(seg, {"unsubscribe"}) :
                  /\ seg[i] = <<"unsubscribe", seg[1][2]>>
                  /\ \A j \in At(seg, {"Respond"}) : j < i
            /\ proc[r].pc = "done" => Len(Calls(seg, "unsubscribe")) = 1

\* The (request, subscriber) pairs whose trace gains an unsubscribe call in
\* this step.
Unsubscribing ==
    {rs \in UNION {{<<r, s>> : s \in SubscriberSet(r)} : r \in DOMAIN proc} :
        Len(Calls(trace'[rs[1]][rs[2]], "unsubscribe"))
            > Len(Calls(trace[rs[1]][rs[2]], "unsubscribe"))}

\* A step that calls unsubscribe appends one UNSUBSCRIBE request built from
\* the request and the subscriber of an attempt answered Unregistered, and
\* no other step puts an UNSUBSCRIBE request on the queue.
C16_Enqueue ==
    /\ \A rs \in Unsubscribing :
          LET r == rs[1]
              s == rs[2]
              a == backendch'[Len(backendch')]
          IN  /\ Len(backendch') = Len(backendch) + 1
              /\ SubSeq(backendch', 1, Len(backendch)) = backendch
              /\ a.Action = "UNSUBSCRIBE"
              /\ a.ID = r.ID
              /\ a.RequestSenderAddr = r.RequestSenderAddr
              /\ a.Service = r.Service
              /\ a.Subscribers = <<s>>
              /\ a.DeliveryPoint = trace'[r][s][Len(trace'[r][s])][2]
              /\ FailedWith(SubSeq(trace[r][s],
                                   CHOOSE i \in 1..Len(trace[r][s]) :
                                       /\ trace[r][s][i][1] = "Push"
                                       /\ AttemptEnd(trace[r][s], i) = Len(trace[r][s]),
                                   Len(trace[r][s]))) = "unreg"
    /\ (Len(backendch') > Len(backendch)
          /\ backendch'[Len(backendch')].Action = "UNSUBSCRIBE")
       => Cardinality(Unsubscribing) = 1

\* C16: a delivery attempt whose outcome is PermanentlyUnregistered, directly
\* or as the underlying error of a credential refresh, responds with that
\* error, then enqueues exactly one UNSUBSCRIBE request on the handoff queue
\* (same request id, sender and service, that single subscriber, that
\* target), and spawns no retry.
C16_UnregisteredUnsubscribes == [](C16_Attempt) /\ [][C16_Enqueue]_vars

\* C16 witness: of two subscribers of one request, one was answered with a
\* refresh whose underlying error is Unregistered, and the UNSUBSCRIBE
\* request for that subscriber alone is on the handoff queue.
C16_Witness ==
    /\ Len(root.Subscribers) = 2
    /\ \E s \in SubscriberSet(root) : \E seg \in DeliveriesFor(root, s) :
          /\ Answer(seg).kind = "refresh"
          /\ FailedWith(seg) = "unreg"
          /\ Calls(seg, "unsubscribe") # <<>>
          /\ backendch # <<>>
          /\ backendch[1].Action = "UNSUBSCRIBE"
          /\ backendch[1].Subscribers = <<s>>

\* The calls of an attempt that took the success path after persisting
\* what the refresh carried.
RefreshedSuccess(seg) ==
    <<seg[1], seg[2]>>
    \o (IF Answer(seg).psp THEN << <<"ModifyPushServiceProvider", "">> >> ELSE <<>>)
    \o (IF Answer(seg).dp THEN << <<"ModifyDeliveryPoint", "">> >> ELSE <<>>)
    \o << <<"Recycle", "">> >>

\* C17: when the backend returns a credential-refresh error without an
\* underlying error the attempt is a success: the refreshed provider and the
\* refreshed target are each persisted when present, the notification is
\* released, and no respond(), retry or unsubscribe is issued for the
\* attempt.
C17_RefreshClearsError ==
    \A r \in DOMAIN proc : \A s \in SubscriberSet(r) : \A seg \in DeliveriesFor(r, s) :
        (Answer(seg).kind = "refresh" /\ Answer(seg).other.kind = "nil") =>
            /\ seg = RefreshedSuccess(seg)
            /\ sink[r].responded = 0
            /\ ~\E t \in tasks : t.req = r
            /\ proc[r].pc = "done"
            /\ recycled = 1
            /\ \A i \in 1..Len(backendch) : backendch[i].Action # "UNSUBSCRIBE"

\* C17 witness: a retry was answered with a refresh carrying a provider and
\* a target and no underlying error: both were persisted, the notification
\* released, nothing responded.
C17_Witness ==
    \E r \in DOMAIN proc : \E seg \in DeliveriesFor(r, 1) :
        /\ r.nrRetries = 1
        /\ Answer(seg).kind = "refresh" /\ Answer(seg).other.kind = "nil"
        /\ Answer(seg).psp /\ Answer(seg).dp
        /\ Len(seg) = 5
        /\ recycled = 1
        /\ sink[r].responded = 0

\* C18: Process never waits on a retry: when every lookup and push returns
\* and the unsubscribe sends are accepted, Process eventually calls finish()
\* on the request, also when no retry goroutine it started ever takes a
\* step.
C18_FinishWithoutRetries == <>(sink[root].finished = 1)

\* C18 witness: the request is finished while a retry goroutine started for
\* it has not taken a step.
C18_Witness ==
    /\ sink[root].finished = 1
    /\ \E t \in tasks : t.req = root /\ t.pc = "start"

\* C19: scheduling a retry creates a new request and leaves the originating
\* request as it was: the new request has attemptCount = original + 1, the
\* same id, sender, service and notification, the failed subscriber as its
\* only subscriber and the failed pair pre-resolved; the originating request
\* is still the request Process was called on, with its own retry count,
\* backoff, subscriber list and pair; re-processed, the new request takes
\* the direct path: one attempt on the pair, no lookup, no worker.
C19_RetryIsNewRequest ==
    /\ \A t \in Built :
          LET q == t.newreq[1]
              o == t.req
          IN  /\ q # o
              /\ q.PreviousTry = <<o>>
              /\ o \in DOMAIN proc
              /\ o = root \/ \E u \in Built : u.newreq[1] = o
              /\ q.nrRetries = o.nrRetries + 1
              /\ q.Action = "PUSH"
              /\ q.ID = o.ID
              /\ q.RequestSenderAddr = o.RequestSenderAddr
              /\ q.Service = o.Service
              /\ q.Notification = o.Notification
              /\ q.Subscribers = <<t.subscriber>>
              /\ t.subscriber \in SubscriberSet(o)
              /\ \E seg \in DeliveriesFor(o, t.subscriber) :
                    /\ FailedWith(seg) = "retry"
                    /\ seg[1] = <<"Push", q.DeliveryPoint, q.PushServiceProvider>>
              /\ PreResolved(q)
    /\ \A q \in DOMAIN proc :
          q.nrRetries > 0 =>
              /\ \E t \in Built : t.newreq[1] = q /\ t.pc = "done"
              /\ WorkersOf(q) = {}
              /\ Calls(trace[q][q.Subscribers[1]], "Lookup") = <<>>
              /\ proc[q].pc = "done" =>
                    Calls(trace[q][q.Subscribers[1]], "Push") =
                        << <<"Push", q.DeliveryPoint, q.PushServiceProvider>> >>

\* C19 witness: the attempt for the second of two subscribers failed
\* retryably; its retry, a request of that subscriber alone, was re-processed
\* with one attempt, while the originating request keeps both subscribers
\* and no pair.
C19_Witness ==
    \E t \in Built :
        /\ t.req = root
        /\ root.Subscribers = <<1, 2>> /\ root.PushServiceProvider = NoPsp
        /\ root.nrRetries = 0
        /\ t.newreq[1].Subscribers = <<2>>
        /\ t.newreq[1] \in DOMAIN proc
        /\ proc[t.newreq[1]].pc = "done"
        /\ Len(Calls(trace[t.newreq[1]][2], "Push")) = 1

\* C20: no respond() is invoked on a request after finish() has been invoked
\* on it, in any interleaving of its workers, its retry goroutines and the
\* processing of the retries it generated, which respond on their own
\* requests.
C20_NoRespondAfterFinish ==
    \A r \in DOMAIN proc : sink[r].late = 0

\* C20 witness: a fan-out request was responded to and finished; its retry
\* was processed afterwards and responded on its own request, and the
\* finished request got no respond after its finish.
C20_Witness ==
    /\ Len(root.Subscribers) = 2
    /\ sink[root].finished = 1 /\ sink[root].responded >= 2 /\ sink[root].late = 0
    /\ \E q \in DOMAIN proc :
          /\ q.PreviousTry = <<root>>
          /\ sink[q].finished = 1 /\ sink[q].responded = 1

====
